---- MODULE Spec2Model ----
(***************************************************************************)
(* A model of src/main.py: CSVTransformer (filename date extraction,       *)
(* monetary total extraction, column normalisation, union/sort/write),     *)
(* CSVValidator (per-column type registry, discrepancies, report) and the  *)
(* command-line entry point that runs --validate and then --transform.     *)
(*                                                                         *)
(* Text is a sequence of one-character strings.  A table cell is a tagged  *)
(* record: NaN, Str(s), Num(n, e) (the number n / 10^e), a timestamp, a    *)
(* date or None.                                                           *)
(***************************************************************************)
EXTENDS Integers, Sequences, FiniteSets, TLC

VARIABLES
    files,          \* the matched files, in glob enumeration order
    args,           \* the parsed --validate / --transform flags
    pc,             \* position of the run in __main__
    i,              \* index of the next file of the running per-file loop
    all_columns,    \* CSVValidator.all_columns: <<col, dtype>> -> set of files
    top_values,     \* CSVValidator.top_values: <<col, file>> -> top-5 counts
    file_stats,     \* get_file_stats' local list, then the sorted stats table
    discrepancies,  \* the table get_discrepancies returns
    all_data,       \* transform_and_union's local list of per-file tables
    concatenated,   \* pd.concat(all_data, ignore_index=True), before sorting
    written,        \* output path -> the table(s) written there by this run
    error,          \* the exception that ended the run, or "none"
    failed_in,      \* the step an exception came from, or "none"
    inp,            \* input of the pure function under study
    out             \* its result

vars == <<files, args, pc, i, all_columns, top_values, file_stats,
          discrepancies, all_data, concatenated, written, error, failed_in,
          inp, out>>

\* the variables of a run, but for its position
runVars == <<files, args, i, all_columns, top_values, file_stats,
             discrepancies, all_data, concatenated, written, error, failed_in>>

-----------------------------------------------------------------------------
(* Bounds of the model *)

MaxFiles == 2
MaxRows == 2
MaxChunks == 4

-----------------------------------------------------------------------------
(* Text helpers: Python's str methods on sequences of characters *)

Digits == <<"0", "1", "2", "3", "4", "5", "6", "7", "8", "9">>
UpperChars == <<"A", "B", "C", "D", "E", "F", "G", "H", "I", "J", "K", "L", "M",
                "N", "O", "P", "Q", "R", "S", "T", "U", "V", "W", "X", "Y", "Z">>
LowerChars == <<"a", "b", "c", "d", "e", "f", "g", "h", "i", "j", "k", "l", "m",
                "n", "o", "p", "q", "r", "s", "t", "u", "v", "w", "x", "y", "z">>

\* the grave accent character (U+0060), which a string literal here cannot hold
Backtick == "GRAVE"

Range(s) == {s[k] : k \in DOMAIN s}

IsDigit(c) == c \in Range(Digits)

DigitVal(c) == (CHOOSE k \in DOMAIN Digits : Digits[k] = c) - 1

LowerChar(c) ==
    IF c \in Range(UpperChars)
    THEN LowerChars[CHOOSE k \in DOMAIN UpperChars : UpperChars[k] = c]
    ELSE c

Lower(s) == [k \in DOMAIN s |-> LowerChar(s[k])]

StartsWith(s, p) == Len(s) >= Len(p) /\ SubSeq(s, 1, Len(p)) = p

EndsWith(s, p) == Len(s) >= Len(p) /\ SubSeq(s, Len(s) - Len(p) + 1, Len(s)) = p

\* s[k..] begins with p
OccursAt(s, p, k) == k + Len(p) - 1 <= Len(s) /\ SubSeq(s, k, k + Len(p) - 1) = p

\* str.replace(old, new): every non-overlapping occurrence, left to right
RECURSIVE Replace(_, _, _)
Replace(s, old, new) ==
    IF s = <<>> THEN <<>>
    ELSE IF OccursAt(s, old, 1)
         THEN new \o Replace(SubSeq(s, Len(old) + 1, Len(s)), old, new)
         ELSE <<Head(s)>> \o Replace(Tail(s), old, new)

\* str.split(sep): the list of pieces between the occurrences of the character
RECURSIVE Split(_, _)
Split(s, sep) ==
    IF \E k \in DOMAIN s : s[k] = sep
    THEN LET k == CHOOSE j \in DOMAIN s : s[j] = sep /\ \A h \in 1..(j - 1) : s[h] # sep
         IN  <<SubSeq(s, 1, k - 1)>> \o Split(SubSeq(s, k + 1, Len(s)), sep)
    ELSE <<s>>

\* str.lstrip(ch)
RECURSIVE LStrip(_, _)
LStrip(s, ch) == IF s # <<>> /\ Head(s) = ch THEN LStrip(Tail(s), ch) ELSE s

\* the value of a run of decimal digits
RECURSIVE DigitsValue(_)
DigitsValue(s) ==
    IF s = <<>> THEN 0
    ELSE 10 * DigitsValue(SubSeq(s, 1, Len(s) - 1)) + DigitVal(s[Len(s)])

AllDigits(s) == \A k \in DOMAIN s : IsDigit(s[k])

-----------------------------------------------------------------------------
(* Cell values *)

NaN == [t |-> "nan"]
NoneVal == [t |-> "None"]
Str(s) == [t |-> "str", s |-> s]
Num(n, e) == [t |-> "num", n |-> n, e |-> e]
Date(y, m, d) == [t |-> "date", y |-> y, m |-> m, d |-> d]
Raised(e) == [t |-> "raise", e |-> e]

\* pd.isna on a scalar
IsNa(v) == v.t \in {"nan", "None", "nat"}

-----------------------------------------------------------------------------
(* CSVTransformer.extract_month_year_from_filename *)

MonthAbbr == <<<<"j", "a", "n">>, <<"f", "e", "b">>, <<"m", "a", "r">>,
               <<"a", "p", "r">>, <<"m", "a", "y">>, <<"j", "u", "n">>,
               <<"j", "u", "l">>, <<"a", "u", "g">>, <<"s", "e", "p">>,
               <<"o", "c", "t">>, <<"n", "o", "v">>, <<"d", "e", "c">>>>

\* datetime.datetime.strptime(s, "%b/%Y").date(): an abbreviated month name in
\* any letter case, "/", four digits, and nothing more; ValueError otherwise
Strptime(s) ==
    IF /\ Len(s) = 8
       /\ Lower(SubSeq(s, 1, 3)) \in Range(MonthAbbr)
       /\ s[4] = "/"
       /\ AllDigits(SubSeq(s, 5, 8))
       /\ DigitsValue(SubSeq(s, 5, 8)) >= 1
    THEN Date(DigitsValue(SubSeq(s, 5, 8)),
              CHOOSE m \in DOMAIN MonthAbbr : MonthAbbr[m] = Lower(SubSeq(s, 1, 3)),
              1)
    ELSE Raised("ValueError")

\* filename.split("_")[-1].split(".")[0].lower()
MonthToken(filename) ==
    LET last == Split(filename, "_")[Len(Split(filename, "_"))]
    IN  Lower(Split(last, ".")[1])

\* a token that starts with "jly" becomes "jul", whatever follows it
JlyCanonical(month) ==
    IF StartsWith(month, <<"j", "l", "y">>) THEN <<"j", "u", "l">> ELSE month

WithYear(month) ==
    IF EndsWith(month, <<"2", "4">>)
    THEN Replace(month, <<"2", "4">>, <<"/", "2", "0", "2", "4">>)
    ELSE month \o <<"/", "2", "0", "2", "3">>

NoExceptHandler(parsed) == parsed

\* the try/except around strptime: any exception is printed and None returned
ExceptToNone(parsed) == IF parsed.t = "raise" THEN NoneVal ELSE parsed

extract_month_year_from_filename(filename) ==
    ExceptToNone(Strptime(WithYear(JlyCanonical(MonthToken(filename)))))

-----------------------------------------------------------------------------
(* Python's float(str) *)

IsSpace(c) == c \in {" ", "\t", "\n"}

RECURSIVE LStripSpace(_)
LStripSpace(s) == IF s # <<>> /\ IsSpace(Head(s)) THEN LStripSpace(Tail(s)) ELSE s

RECURSIVE RStripSpace(_)
RStripSpace(s) ==
    IF s # <<>> /\ IsSpace(s[Len(s)]) THEN RStripSpace(SubSeq(s, 1, Len(s) - 1)) ELSE s

\* a float is kept as n / 10^e with no trailing zero in the fraction
RECURSIVE Normalize(_, _)
Normalize(n, e) ==
    IF e > 0 /\ n % 10 = 0 THEN Normalize(n \div 10, e - 1) ELSE Num(n, e)

\* float(s) for decimal literals: optional blanks, optional sign, digits with an
\* optional fraction; ValueError for anything else built from the model's alphabet
PyFloat(s) ==
    LET t     == RStripSpace(LStripSpace(s))
        neg   == t # <<>> /\ Head(t) = "-"
        body  == IF t # <<>> /\ Head(t) \in {"-", "+"} THEN Tail(t) ELSE t
        parts == Split(body, ".")
        ip    == parts[1]
        fp    == IF Len(parts) = 2 THEN parts[2] ELSE <<>>
    IN  IF Len(parts) <= 2 /\ AllDigits(ip) /\ AllDigits(fp) /\ Len(ip) + Len(fp) >= 1
        THEN Normalize((IF neg THEN -1 ELSE 1) * DigitsValue(ip \o fp), Len(fp))
        ELSE Raised("ValueError")

-----------------------------------------------------------------------------
(* CSVTransformer.extract_total_from_task_details *)

IsLetter(c) == c \in Range(UpperChars) \cup Range(LowerChars)

\* \w
IsWordChar(c) == IsLetter(c) \/ IsDigit(c) \/ c = "_"

\* \b before position k (k = Len(s) + 1 is the end of the text)
WordBoundary(s, k) ==
    (k > 1 /\ IsWordChar(s[k - 1])) # (k <= Len(s) /\ IsWordChar(s[k]))

TotalWord == <<"t", "o", "t", "a", "l">>

\* re.IGNORECASE: letters are compared case-folded
CaseFold(s) == Lower(s)

\* \s*\$([\d,]+\.\d{2}) right after the colon at j: the positions of group 1, as
\* <<first, last>>, or <<>> when that part of the pattern does not match there
AmountAfterColon(s, j) ==
    LET d == CHOOSE k \in (j + 1)..(Len(s) + 1) :
                 /\ \A h \in (j + 1)..(k - 1) : IsSpace(s[h])
                 /\ (k <= Len(s) => ~IsSpace(s[k]))
        b == CHOOSE k \in d..(Len(s) + 1) :
                 /\ \A h \in (d + 1)..k : IsDigit(s[h]) \/ s[h] = ","
                 /\ (k + 1 <= Len(s) => ~(IsDigit(s[k + 1]) \/ s[k + 1] = ","))
                 /\ k <= Len(s)
    IN  IF /\ d <= Len(s)
           /\ s[d] = "$"
           /\ b > d
           /\ b + 3 <= Len(s)
           /\ s[b + 1] = "."
           /\ IsDigit(s[b + 2])
           /\ IsDigit(s[b + 3])
        THEN <<d + 1, b + 3>>
        ELSE <<>>

\* the colons that [^\d]*\s*\: can reach from the end of the word at p and after
\* which the rest of the pattern matches
ColonsFrom(s, p) ==
    {j \in (p + 5)..Len(s) :
        /\ s[j] = ":"
        /\ \A h \in (p + 5)..(j - 1) : ~IsDigit(s[h])
        /\ AmountAfterColon(s, j) # <<>>}

\* the pattern matches with its first character at p
MatchesAt(s, p) ==
    /\ OccursAt(CaseFold(s), TotalWord, p)
    /\ WordBoundary(s, p)
    /\ WordBoundary(s, p + 5)
    /\ ColonsFrom(s, p) # {}

Max(S) == CHOOSE x \in S : \A y \in S : y <= x
Min(S) == CHOOSE x \in S : \A y \in S : x <= y

LastStart(S) == Max(S)

\* re.search returns the match with the leftmost start
LeftmostStart(S) == Min(S)

\* group 1 of re.search(pattern, s, re.IGNORECASE), or <<>> when there is no match;
\* the greedy [^\d]* takes the farthest colon the rest of the pattern allows
SearchTotal(s) ==
    LET starts == {p \in DOMAIN s : MatchesAt(s, p)}
    IN  IF starts = {} THEN <<>>
        ELSE LET g == AmountAfterColon(s, Max(ColonsFrom(s, LeftmostStart(starts))))
             IN  SubSeq(s, g[1], g[2])

\* total_amount.replace(",", "")
StripThousands(amount) == Replace(amount, <<",">>, <<>>)

extract_total_from_task_details(task_details) ==
    IF IsNa(task_details) \/ task_details.t # "str"
    THEN Num(0, 0)
    ELSE LET g == SearchTotal(task_details.s)
         IN  IF g # <<>> THEN PyFloat(StripThousands(g)) ELSE Num(0, 0)

-----------------------------------------------------------------------------
(* pd.read_csv: a CSV file is a header and rows of text cells; a table is a  *)
(* row count n and, per column name, its dtype and its n cells               *)

\* cell texts read as missing (among pandas' default na_values)
IsNaText(x) == x \in {<<>>, <<"n", "a", "n">>, <<"N", "A">>}

IsIntText(x) ==
    LET body == IF x # <<>> /\ Head(x) \in {"-", "+"} THEN Tail(x) ELSE x
    IN  body # <<>> /\ AllDigits(body)

IsNumText(x) == PyFloat(x).t = "num" /\ \A k \in DOMAIN x : ~IsSpace(x[k])

\* the dtype read_csv infers for a column from its cell texts
InferDtype(texts) ==
    LET present == {k \in DOMAIN texts : ~IsNaText(texts[k])}
    IN  IF texts = <<>> THEN "object"
        ELSE IF \A k \in present : IsIntText(texts[k])
             THEN IF present = DOMAIN texts THEN "int64" ELSE "float64"
             ELSE IF \A k \in present : IsNumText(texts[k]) THEN "float64"
                  ELSE "object"

TypedCell(dtype, x) ==
    IF IsNaText(x) THEN NaN
    ELSE IF dtype = "object" THEN Str(x) ELSE PyFloat(x)

Column(dtype, v) == [dtype |-> dtype, v |-> v]

\* the typed table of a file's header and rows
ParsedTable(f) ==
    [t   |-> "table",
     n   |-> Len(f.rows),
     col |-> [c \in Range(f.header) |->
                LET texts == [r \in DOMAIN f.rows |-> f.rows[r][c]]
                    dt    == InferDtype(texts)
                IN  Column(dt, [r \in DOMAIN texts |-> TypedCell(dt, texts[r])])]]

ReadCsvIgnoringErrors(f) == ParsedTable(f)

\* pd.read_csv(filename): a file that cannot be read or parsed raises
read_csv(f) == IF ~f.readable THEN Raised("ParserError") ELSE ParsedTable(f)

Columns(df) == DOMAIN df.col

\* df[name] = column, for every name of the function cols
SetColumns(df, cols) == [df EXCEPT !.col = cols @@ df.col]

\* os.path.basename
Basename(filename) == Split(filename, "/")[Len(Split(filename, "/"))]

-----------------------------------------------------------------------------
(* CSVTransformer.transform_columns *)

date_columns == <<"completeBeforeTime", "completeAfterTime", "creationTime",
                  "startTime", "completionTime", "departureTime", "arrivalTime">>

object_columns == <<"forceCompletedBy", "dependencies", "metadata">>

\* "destinationLonLat", ... without the "LonLat" that col.replace removes
lonlat_bases == <<"destination", "completion", "start", "departure", "arrival">>

lonlat_columns == [k \in DOMAIN lonlat_bases |-> lonlat_bases[k] \o "LonLat"]

\* pd.to_datetime on one cell: text of the form YYYY-MM-DD, a number (an epoch
\* offset) or a missing value; other text of the model's alphabet does not parse
to_datetime(v) ==
    IF IsNa(v) THEN [t |-> "nat"]
    ELSE IF v.t = "num" THEN [t |-> "ts", epoch |-> v]
    ELSE IF /\ Len(v.s) = 10
            /\ v.s[5] = "-" /\ v.s[8] = "-"
            /\ AllDigits(SubSeq(v.s, 1, 4) \o SubSeq(v.s, 6, 7) \o SubSeq(v.s, 9, 10))
            /\ DigitsValue(SubSeq(v.s, 6, 7)) \in 1..12
            /\ DigitsValue(SubSeq(v.s, 9, 10)) \in 1..28
         THEN [t |-> "ts", y |-> DigitsValue(SubSeq(v.s, 1, 4)),
               m |-> DigitsValue(SubSeq(v.s, 6, 7)), d |-> DigitsValue(SubSeq(v.s, 9, 10))]
         ELSE Raised("ValueError")

AnyRaised(v) == \E k \in DOMAIN v : v[k].t = "raise"

\* lines 55-57: every date column that is present is parsed as timestamps
ParseDates(df) ==
    LET todo == {c \in Range(date_columns) \cap Columns(df) :
                    df.col[c].dtype # "datetime64[ns]"}
        conv == [c \in todo |->
                    Column("datetime64[ns]",
                           [r \in 1..df.n |-> to_datetime(df.col[c].v[r])])]
    IN  IF \E c \in todo : AnyRaised(conv[c].v) THEN Raised("ValueError")
        ELSE SetColumns(df, conv)

\* lines 59-62: every object column that is present is cast to object
CastObjects(df) ==
    LET todo == {c \in Range(object_columns) \cap Columns(df) :
                    df.col[c].dtype # "object"}
    IN  SetColumns(df, [c \in todo |-> Column("object", df.col[c].v)])

\* Series.str.split(",", expand=True).astype(float) on the stripped cells: the
\* frame has as many columns as the longest split; a shorter row is padded with
\* missing values; a piece that is no number raises
SplitFloat(v) ==
    LET parts == [r \in DOMAIN v |-> IF IsNa(v[r]) THEN <<>> ELSE Split(v[r].s, ",")]
        width == IF DOMAIN v = {} THEN 0 ELSE Max({Len(parts[r]) : r \in DOMAIN v})
    IN  [k \in 1..width |->
            [r \in DOMAIN v |->
                IF k <= Len(parts[r]) THEN PyFloat(parts[r][k]) ELSE NaN]]

\* lines 72-77 for one composite column: the new columns, or what is raised
SplitLonLat(df, k) ==
    LET c        == lonlat_columns[k]
        stripped == [r \in 1..df.n |->
                        IF IsNa(df.col[c].v[r]) THEN NaN
                        ELSE Str(LStrip(df.col[c].v[r].s, Backtick))]
        frame    == SplitFloat(stripped)
    IN  IF df.col[c].dtype # "object" THEN Raised("AttributeError")
        ELSE IF \E j \in DOMAIN frame : AnyRaised(frame[j]) THEN Raised("ValueError")
        ELSE IF Len(frame) # 2 THEN Raised("ValueError")
        ELSE [t   |-> "cols",
              new |-> (c :> Column("object", stripped))
                      @@ ((lonlat_bases[k] \o "_Longitude") :> Column("float64", frame[1]))
                      @@ ((lonlat_bases[k] \o "_Latitude") :> Column("float64", frame[2]))]

RECURSIVE MergeAll(_, _)
MergeAll(f, S) ==
    IF S = {} THEN <<>>
    ELSE LET k == Min(S) IN f[k] @@ MergeAll(f, S \ {k})

\* lines 71-77: every composite column that is present is split in two
SplitAllLonLat(df) ==
    LET todo == {k \in DOMAIN lonlat_columns : lonlat_columns[k] \in Columns(df)}
        res  == [k \in todo |-> SplitLonLat(df, k)]
        bad  == {k \in todo : res[k].t = "raise"}
    IN  IF bad # {} THEN res[Min(bad)]
        ELSE SetColumns(df, MergeAll([k \in todo |-> res[k].new], todo))

\* the text of a number: str(5) = "5", str(5.0) = "5.0", str(12.5) = "12.5"
RECURSIVE NatText(_)
NatText(n) == IF n < 10 THEN <<Digits[n + 1]>> ELSE NatText(n \div 10) \o <<Digits[(n % 10) + 1]>>

RECURSIVE PadZeros(_, _)
PadZeros(x, len) == IF Len(x) >= len THEN x ELSE PadZeros(<<"0">> \o x, len)

NumText(v, dtype) ==
    LET abs    == IF v.n < 0 THEN -v.n ELSE v.n
        digits == PadZeros(NatText(abs), v.e + 1)
        ip     == SubSeq(digits, 1, Len(digits) - v.e)
        fp     == SubSeq(digits, Len(digits) - v.e + 1, Len(digits))
    IN  (IF v.n < 0 THEN <<"-">> ELSE <<>>)
        \o ip
        \o (IF v.e > 0 THEN <<".">> \o fp
            ELSE IF dtype = "int64" THEN <<>> ELSE <<".", "0">>)

\* lines 79-82: recipientsNumbers as text, without leading backticks, and with
\* the text "nan" that astype(str) makes of a missing value turned back to NaN
NormalizeRecipients(df) ==
    IF "recipientsNumbers" \notin Columns(df) THEN df
    ELSE LET c    == df.col["recipientsNumbers"]
             text == [r \in 1..df.n |->
                        IF c.v[r].t = "str" THEN c.v[r].s
                        ELSE IF c.v[r].t = "num" THEN NumText(c.v[r], c.dtype)
                        ELSE <<"n", "a", "n">>]
             strp == [r \in 1..df.n |-> LStrip(text[r], Backtick)]
         IN  SetColumns(df, "recipientsNumbers" :>
                 Column("object",
                        [r \in 1..df.n |->
                            IF strp[r] = <<"n", "a", "n">> THEN NaN ELSE Str(strp[r])]))

\* line 84: df.drop(columns=..., inplace=True) raises KeyError unless every one of
\* the labels is a column
DropColumns(df, names) ==
    IF names \subseteq Columns(df)
    THEN [df EXCEPT !.col = [c \in Columns(df) \ names |-> df.col[c]]]
    ELSE Raised("KeyError")

DropLonLat(df) == DropColumns(df, Range(lonlat_columns))

ApplyStep(step, df) ==
    CASE step = "dates" -> ParseDates(df)
      [] step = "objects" -> CastObjects(df)
      [] step = "lonlat" -> SplitAllLonLat(df)
      [] step = "recipients" -> NormalizeRecipients(df)
      [] step = "drop" -> DropLonLat(df)

\* the steps in order, each on the result of the one before; an exception ends them
RECURSIVE RunSteps(_, _)
RunSteps(df, steps) ==
    IF steps = <<>> \/ df.t = "raise" THEN df
    ELSE RunSteps(ApplyStep(Head(steps), df), Tail(steps))

transform_columns(df) ==
    RunSteps(df, <<"dates", "objects", "lonlat", "recipients", "drop">>)

-----------------------------------------------------------------------------
(* pd.concat(..., ignore_index=True) and DataFrame.sort_values(by=...) *)

RECURSIVE SortedSeq(_)
SortedSeq(S) == IF S = {} THEN <<>> ELSE <<Min(S)>> \o SortedSeq(S \ {Min(S)})

RECURSIVE Flatten(_)
Flatten(ss) == IF ss = <<>> THEN <<>> ELSE Head(ss) \o Flatten(Tail(ss))

ConcatOfNothingIsEmpty(tables) ==
    LET names == UNION {Columns(tables[k]) : k \in DOMAIN tables}
        rows  == Flatten([k \in DOMAIN tables |->
                    [r \in 1..tables[k].n |->
                        [c \in names |->
                            IF c \in Columns(tables[k]) THEN tables[k].col[c].v[r]
                            ELSE NaN]]])
    IN  [t    |-> "frame",
         rows |-> [k \in DOMAIN rows |-> [index |-> k - 1, row |-> rows[k]]]]

\* line 106: the rows of every table, in list order then row order, over the union
\* of the columns (a column a table lacks is filled with NaN), renumbered from 0;
\* pd.concat of an empty list raises ValueError ("No objects to concatenate")
Concat(tables) ==
    IF tables = <<>> THEN Raised("ValueError")
    ELSE LET names == UNION {Columns(tables[k]) : k \in DOMAIN tables}
             rows  == Flatten([k \in DOMAIN tables |->
                         [r \in 1..tables[k].n |->
                             [c \in names |->
                                 IF c \in Columns(tables[k]) THEN tables[k].col[c].v[r]
                                 ELSE NaN]]])
         IN  [t    |-> "frame",
              rows |-> [k \in DOMAIN rows |-> [index |-> k - 1, row |-> rows[k]]]]

\* the sort key of a datetime.date
DateKey(v) == v.y * 10000 + v.m * 100 + v.d

RECURSIVE Perms(_)
Perms(S) ==
    IF S = {} THEN {<<>>}
    ELSE UNION {{<<x>> \o q : q \in Perms(S \ {x})} : x \in S}

\* the orders in which sort_values may leave the positions G whose keys are equal:
\* its default kind="quicksort" is not a stable sort, so any order
TieOrders(G) == Perms(G)

RECURSIVE OrdersByKey(_, _)
OrdersByKey(P, key) ==
    IF P = {} THEN {<<>>}
    ELSE LET least == Min({key[q] : q \in P})
             G     == {q \in P : key[q] = least}
         IN  {a \o b : a \in TieOrders(G), b \in OrdersByKey(P \ G, key)}

\* na_position="last", the default: the missing keys follow the sorted ones
NullsLast(sorted, nulls) == sorted \o nulls

\* the orders sort_values(by=...) may give the positions of the key cells: keys
\* ascending, then the positions of the missing keys in their original order
SortOrders(keys) ==
    LET present == {q \in DOMAIN keys : ~IsNa(keys[q])}
        nulls   == SortedSeq(DOMAIN keys \ present)
        key     == [q \in present |-> DateKey(keys[q])]
    IN  {NullsLast(o, nulls) : o \in OrdersByKey(present, key)}

Reorder(rows, order) == [k \in DOMAIN order |-> rows[order[k]]]

-----------------------------------------------------------------------------
(* CSVTransformer.transform_and_union, one file of the loop *)

\* df[name] = value, a scalar broadcast over the rows
SetScalar(df, name, dtype, value) ==
    SetColumns(df, name :> Column(dtype, [r \in 1..df.n |-> value]))

\* lines 98-99: the file's name and date in every row
AddFilenameAndMonth(f, df) ==
    LET month_year == extract_month_year_from_filename(f.name)
    IN  IF df.t = "raise" THEN df
        ELSE IF month_year.t = "raise" THEN month_year
        ELSE SetScalar(SetScalar(df, "Filename", "object", Str(Basename(f.name))),
                       "Month/Year", "object", month_year)

\* lines 100-102: df["taskDetails"] raises KeyError when the column is absent
AddTotalAmount(df) ==
    IF df.t = "raise" THEN df
    ELSE IF "taskDetails" \notin Columns(df) THEN Raised("KeyError")
    ELSE LET totals == [r \in 1..df.n |->
                          extract_total_from_task_details(df.col["taskDetails"].v[r])]
         IN  IF AnyRaised(totals) THEN Raised("ValueError")
             ELSE SetColumns(df, "TotalAmount" :> Column("float64", totals))

\* lines 92-102: the table appended to all_data for one file, or what is raised
TransformFileTable(f) ==
    AddTotalAmount(AddFilenameAndMonth(f, transform_columns(read_csv(f))))

KeepLastTable(list, df) == <<df>>

\* line 104: all_data.append(df)
AppendTable(list, df) == Append(list, df)

-----------------------------------------------------------------------------
(* CSVValidator *)

HeadCount == 5

\* format_top_values: the counts of the (at most five) most frequent values of a
\* column, a missing value counted under the label "NA"
format_top_values(v) ==
    LET label(x) == IF IsNa(x) THEN Str(<<"N", "A">>) ELSE x
        vals     == {label(v[r]) : r \in DOMAIN v}
        count    == [x \in vals |-> Cardinality({r \in DOMAIN v : label(v[r]) = x})]
        top      == CHOOSE S \in SUBSET vals :
                        /\ Cardinality(S) = IF Cardinality(vals) < HeadCount
                                            THEN Cardinality(vals) ELSE HeadCount
                        /\ \A a \in S, b \in vals \ S : count[a] >= count[b]
    IN  [x \in top |-> count[x]]

\* self.all_columns[col][dtype].add(file), for the types already seen of one column
AddFile(types, d, file) ==
    IF \E k \in DOMAIN types : types[k].dtype = d
    THEN [k \in DOMAIN types |->
            IF types[k].dtype = d
            THEN [types[k] EXCEPT !.files = @ \cup {file}]
            ELSE types[k]]
    ELSE Append(types, [dtype |-> d, files |-> {file}])

\* line 135: all_columns keeps, per column in order of first appearance, the
\* dtypes seen in order of first appearance, each with the set of its files
AddColumnType(ac, c, d, file) ==
    IF \E k \in DOMAIN ac : ac[k].col = c
    THEN [k \in DOMAIN ac |->
            IF ac[k].col = c
            THEN [ac[k] EXCEPT !.types = AddFile(@, d, file)]
            ELSE ac[k]]
    ELSE Append(ac, [col |-> c, types |-> <<[dtype |-> d, files |-> {file}]>>])

\* lines 134-135 over the columns of one file, in column order
RECURSIVE RegisterColumns(_, _, _, _)
RegisterColumns(ac, names, df, file) ==
    IF names = <<>> THEN ac
    ELSE RegisterColumns(AddColumnType(ac, Head(names), df.col[Head(names)].dtype, file),
                         Tail(names), df, file)

\* df.columns after df["Month/Year"] = ...: the header, then the new column
StatsColumns(f) ==
    IF "Month/Year" \in Range(f.header) THEN f.header ELSE Append(f.header, "Month/Year")

AnyColumn(entry) == TRUE

\* line 153: a column is reported when it was seen with more than one dtype
HasDiscrepancy(entry) == Len(entry.types) > 1

\* get_discrepancies: one row per dtype of every reported column
get_discrepancies(ac, tv) ==
    Flatten([k \in DOMAIN ac |->
        IF HasDiscrepancy(ac[k])
        THEN [j \in DOMAIN ac[k].types |->
                [Column   |-> ac[k].col,
                 DataType |-> ac[k].types[j].dtype,
                 Files    |-> ac[k].types[j].files,
                 Top5     |-> [file \in ac[k].types[j].files |-> tv[<<ac[k].col, file>>]]]]
        ELSE <<>>])

-----------------------------------------------------------------------------
(* The matched files: data/*.csv, line 177 *)

Dir == <<"d", "a", "t", "a", "/">>
Ext == <<".", "c", "s", "v">>

FileName(token) == Dir \o <<"t", "_">> \o token \o Ext

RunTokens == {<<"j", "a", "n">>, <<"f", "e", "b", "2", "4">>, <<"s", "e", "p", "t">>}

GeoText(r) ==
    IF r = 1 THEN <<Backtick, "1", ".", "5", ",", "-", "2">> ELSE <<"3", ",", "4">>

TaskText(r) ==
    IF r = 1
    THEN <<"t", "o", "t", "a", "l", ":", "$", "1", ",", "2", "3", "4", ".", "5", "6">>
    ELSE <<"x">>

Kinds == {"full", "min", "noarrival", "badgeo", "unreadable"}

KindHeader(kind) ==
    CASE kind = "full" -> lonlat_columns \o <<"taskDetails", "recipientsNumbers",
                                              "startTime", "metadata">>
      [] kind = "min" -> lonlat_columns \o <<"taskDetails", "recipientsNumbers">>
      [] kind = "noarrival" -> SubSeq(lonlat_columns, 1, 4) \o <<"taskDetails">>
      [] kind = "badgeo" -> lonlat_columns \o <<"taskDetails">>
      [] OTHER -> <<>>

KindCell(kind, c, r) ==
    CASE c \in Range(lonlat_columns) ->
            IF kind = "badgeo" /\ c = "destinationLonLat" THEN <<"x", ",", "4">>
            ELSE IF kind = "full" THEN GeoText(r) ELSE GeoText(2)
      [] c = "taskDetails" -> IF kind = "min" THEN <<>> ELSE TaskText(r)
      [] c = "recipientsNumbers" ->
            IF kind = "min" THEN <<"5">>
            ELSE IF r = 1 THEN <<Backtick, "5">> ELSE <<>>
      [] c = "startTime" -> <<"2", "0", "2", "3", "-", "0", "1", "-", "0", "5">>
      [] OTHER -> <<"7">>

KindFile(kind, token) ==
    [name     |-> FileName(token),
     readable |-> kind # "unreadable",
     header   |-> KindHeader(kind),
     rows     |-> [r \in 1..(IF kind = "full" THEN MaxRows
                             ELSE IF kind = "unreadable" THEN 0 ELSE 1) |->
                     [c \in Range(KindHeader(kind)) |-> KindCell(kind, c, r)]]]

\* every kind of file under every token, and a second January file
Catalogue ==
    {KindFile(kind, token) : kind \in Kinds, token \in RunTokens}
        \cup {KindFile("min", <<"J", "a", "n">>)}

\* what glob.glob can return: up to MaxFiles files with distinct names, in any order
MatchedFiles ==
    {fs \in UNION {[1..n -> Catalogue] : n \in 0..MaxFiles} :
        \A a, b \in DOMAIN fs : a # b => fs[a].name # fs[b].name}

-----------------------------------------------------------------------------
(* The run: __main__, lines 176-194 *)

ReportPath == "validation/report.xlsx"
CombinedPath == "output/combined_data.xlsx"

Unset == [t |-> "unset"]

Init ==
    /\ files \in MatchedFiles
    /\ args \in [validate : BOOLEAN, transform : BOOLEAN]
    /\ pc = "main"
    /\ i = 1
    /\ all_columns = <<>>
    /\ top_values = <<>>
    /\ file_stats = <<>>
    /\ discrepancies = <<>>
    /\ all_data = <<>>
    /\ concatenated = <<>>
    /\ written = <<>>
    /\ error = "none"
    /\ failed_in = "none"
    /\ inp = Unset
    /\ out = Unset

\* an exception nobody catches ends the process
Abort(e, where) ==
    /\ pc' = "aborted"
    /\ error' = e
    /\ failed_in' = where

\* lines 187-188: with --validate a CSVValidator is made and generate_report called
MainValidate ==
    /\ pc = "main"
    /\ pc' = IF args.validate THEN "get_file_stats" ELSE "main_transform"
    /\ i' = 1
    /\ all_columns' = <<>>
    /\ top_values' = <<>>
    /\ file_stats' = <<>>
    /\ UNCHANGED <<files, args, discrepancies, all_data, concatenated, written,
                   error, failed_in, inp, out>>

\* lines 128-146: one file of get_file_stats' loop
GetFileStatsFile ==
    /\ pc = "get_file_stats"
    /\ i <= Len(files)
    /\ LET f          == files[i]
           raw        == read_csv(f)
           base       == Basename(f.name)
           month_year == extract_month_year_from_filename(f.name)
           df         == SetScalar(raw, "Month/Year", "object", month_year)
           names      == StatsColumns(f)
       IN  IF raw.t = "raise" \/ month_year.t = "raise"
           THEN /\ Abort(IF raw.t = "raise" THEN raw.e ELSE month_year.e, "validate")
                /\ UNCHANGED <<i, all_columns, top_values, file_stats>>
           ELSE /\ all_columns' = RegisterColumns(all_columns, names, df, base)
                /\ top_values' =
                       [k \in {<<c, base>> : c \in Columns(df)} |->
                           format_top_values(df.col[k[1]].v)] @@ top_values
                /\ file_stats' = Append(file_stats,
                       [filename    |-> base,
                        month_year  |-> month_year,
                        num_columns |-> Len(names),
                        num_records |-> df.n,
                        columns     |-> names])
                /\ i' = i + 1
                /\ UNCHANGED <<pc, error, failed_in>>
    /\ UNCHANGED <<files, args, discrepancies, all_data, concatenated, written, inp, out>>

\* line 148 and lines 169-173: the stats are sorted by month_year (KeyError when
\* no file was matched: the empty table has no such column), the discrepancies
\* are computed, and both sheets are written
FinishReport ==
    /\ pc = "get_file_stats"
    /\ i > Len(files)
    /\ IF file_stats = <<>>
       THEN /\ Abort("KeyError", "validate")
            /\ UNCHANGED <<file_stats, discrepancies, written>>
       ELSE /\ \E order \in SortOrders([k \in DOMAIN file_stats |-> file_stats[k].month_year]) :
                   /\ file_stats' = Reorder(file_stats, order)
                   /\ discrepancies' = get_discrepancies(all_columns, top_values)
                   /\ written' = (ReportPath :>
                          [File_Stats    |-> Reorder(file_stats, order),
                           Discrepancies |-> get_discrepancies(all_columns, top_values)])
                          @@ written
            /\ pc' = "main_transform"
            /\ UNCHANGED <<error, failed_in>>
    /\ UNCHANGED <<files, args, i, all_columns, top_values, all_data, concatenated,
                   inp, out>>

\* lines 192-193 and 89: with --transform a CSVTransformer is made and
\* transform_and_union called; otherwise the process ends
MainTransform ==
    /\ pc = "main_transform"
    /\ pc' = IF args.transform THEN "transform" ELSE "exit"
    /\ i' = 1
    /\ all_data' = <<>>
    /\ UNCHANGED <<files, args, all_columns, top_values, file_stats, discrepancies,
                   concatenated, written, error, failed_in, inp, out>>

\* lines 91-104: one file of transform_and_union's loop
TransformFile ==
    /\ pc = "transform"
    /\ i <= Len(files)
    /\ LET df == TransformFileTable(files[i])
       IN  IF df.t = "raise"
           THEN /\ Abort(df.e, "transform")
                /\ UNCHANGED <<i, all_data>>
           ELSE /\ all_data' = AppendTable(all_data, df)
                /\ i' = i + 1
                /\ UNCHANGED <<pc, error, failed_in>>
    /\ UNCHANGED <<files, args, all_columns, top_values, file_stats, discrepancies,
                   concatenated, written, inp, out>>

\* lines 106-109: concatenate, sort by Month/Year, write
ConcatSortWrite ==
    /\ pc = "transform"
    /\ i > Len(files)
    /\ LET combined == Concat(all_data)
       IN  IF combined.t = "raise"
           THEN /\ Abort(combined.e, "transform")
                /\ UNCHANGED <<concatenated, written>>
           ELSE /\ concatenated' = combined.rows
                /\ \E order \in SortOrders([k \in DOMAIN combined.rows |->
                                               combined.rows[k].row["Month/Year"]]) :
                       written' = (CombinedPath :> Reorder(combined.rows, order))
                                  @@ written
                /\ pc' = "exit"
                /\ UNCHANGED <<error, failed_in>>
    /\ UNCHANGED <<files, args, i, all_columns, top_values, file_stats, discrepancies,
                   all_data, inp, out>>

Next ==
    \/ MainValidate
    \/ GetFileStatsFile
    \/ FinishReport
    \/ MainTransform
    \/ TransformFile
    \/ ConcatSortWrite

Spec == Init /\ [][Next]_vars

-----------------------------------------------------------------------------
(* The pure functions, each applied once to an input drawn from a bounded set *)

NoRun ==
    /\ files = <<>>
    /\ args = [validate |-> FALSE, transform |-> FALSE]
    /\ i = 1
    /\ all_columns = <<>>
    /\ top_values = <<>>
    /\ file_stats = <<>>
    /\ discrepancies = <<>>
    /\ all_data = <<>>
    /\ concatenated = <<>>
    /\ written = <<>>
    /\ error = "none"
    /\ failed_in = "none"

UpperChar(c) ==
    IF c \in Range(LowerChars)
    THEN UpperChars[CHOOSE k \in DOMAIN LowerChars : LowerChars[k] = c]
    ELSE c

Upper(s) == [k \in DOMAIN s |-> UpperChar(s[k])]

Capitalize(s) == [k \in DOMAIN s |-> IF k = 1 THEN UpperChar(s[k]) ELSE s[k]]

\* the month tokens of section 6: an abbreviation or "jly", in three letter cases,
\* alone or followed by "24"
MonthNames == Range(MonthAbbr) \cup {<<"j", "l", "y">>}

ValidTokens ==
    {w \o suffix :
        w \in UNION {{m, Upper(m), Capitalize(m)} : m \in MonthNames},
        suffix \in {<<>>, <<"2", "4">>}}

MalformedTokens ==
    {<<>>, <<"s", "e", "p", "t">>, <<"j", "u", "n", "e">>, <<"2", "4">>,
     <<"j", "a", "n", "2", "4", "2", "4">>, <<"j", "a", "n", "2", "3">>, <<"x">>}

Prefixes == {Dir \o <<"t", "_">>, Dir \o <<"a", "_", "b", "_">>}

DateInputs ==
    {Str(prefix \o token \o Ext) :
        prefix \in Prefixes, token \in ValidTokens \cup MalformedTokens}

InitDate ==
    /\ NoRun
    /\ pc = "call_extract_month_year"
    /\ inp \in DateInputs
    /\ out = Unset

ExtractMonthYear ==
    /\ pc = "call_extract_month_year"
    /\ out' = extract_month_year_from_filename(inp.s)
    /\ pc' = "returned"
    /\ UNCHANGED <<runVars, inp>>

SpecDate == InitDate /\ [][ExtractMonthYear]_vars

\* the pieces the task-details texts are built from
Chunks ==
    {<<"t", "o", "t", "a", "l">>,
     <<":">>, <<" ">>, <<"x">>, <<" ", "7">>,
     <<"$", "9", ".", "5", "0">>,
     <<" ", "T", "o", "t", "a", "l", " ", ":", " ", "$", "1", ",", "2", "3", "4", ".", "5", "6">>}

TotalInputs ==
    {NaN, NoneVal, Num(5, 0), Num(125, 1)}
        \cup {Str(Flatten(cs)) : cs \in UNION {[1..n -> Chunks] : n \in 0..MaxChunks}}

InitTotal ==
    /\ NoRun
    /\ pc = "call_extract_total"
    /\ inp \in TotalInputs
    /\ out = Unset

ExtractTotal ==
    /\ pc = "call_extract_total"
    /\ out' = extract_total_from_task_details(inp)
    /\ pc' = "returned"
    /\ UNCHANGED <<runVars, inp>>

SpecTotal == InitTotal /\ [][ExtractTotal]_vars

\* the composite cells the tables given to transform_columns are built from
GeoCells ==
    {<<Backtick, "1", ".", "5", ",", "-", "2">>, <<"3", ",", "4">>,
     <<"x", ",", "4">>, <<>>}

\* a file with any subset of the composite columns, together with taskDetails; in
\* a row every composite column holds the same text
ColumnsInputs ==
    {[name     |-> FileName(<<"j", "a", "n">>),
      readable |-> TRUE,
      header   |-> [k \in 1..Cardinality(P) |-> lonlat_columns[SortedSeq(P)[k]]]
                   \o <<"taskDetails">>,
      rows     |-> [r \in DOMAIN cells |->
                      [c \in {lonlat_columns[k] : k \in P} \cup {"taskDetails"} |->
                          IF c = "taskDetails" THEN <<"x">> ELSE cells[r]]]] :
        P \in SUBSET DOMAIN lonlat_columns,
        cells \in UNION {[1..n -> GeoCells] : n \in 1..MaxRows}}

InitColumns ==
    /\ NoRun
    /\ pc = "call_transform_columns"
    /\ inp \in ColumnsInputs
    /\ out = Unset

TransformColumns ==
    /\ pc = "call_transform_columns"
    /\ out' = transform_columns(read_csv(inp))
    /\ pc' = "returned"
    /\ UNCHANGED <<runVars, inp>>

SpecColumns == InitColumns /\ [][TransformColumns]_vars

-----------------------------------------------------------------------------
(* Properties of the run *)

HasCombined == CombinedPath \in DOMAIN written

HasReport == ReportPath \in DOMAIN written

\* a composite cell of the form lon,lat with an optional leading grave accent
WellFormedGeo(x) ==
    LET parts == Split(LStrip(x, Backtick), ",")
    IN  Len(parts) = 2 /\ IsNumText(parts[1]) /\ IsNumText(parts[2])

\* a file that can be read and whose composite cells are all well formed
WellFormedFile(f) ==
    /\ f.readable
    /\ \A r \in DOMAIN f.rows :
           \A c \in Range(f.header) \cap Range(lonlat_columns) : WellFormedGeo(f.rows[r][c])

\* C1: in the transform path a matched file that lacks some of the known columns
\* is processed without error: whenever transform_and_union fails on a file, that
\* file is unreadable or holds a malformed value; an absent column is no cause.
C1_AbsentColumnsAreNoError ==
    (pc = "aborted" /\ failed_in = "transform" /\ i <= Len(files))
        => ~WellFormedFile(files[i])

TokenMonth(w) ==
    IF w = <<"j", "l", "y">> THEN 7 ELSE CHOOSE m \in DOMAIN MonthAbbr : MonthAbbr[m] = w

\* C2: for every filename whose token is, in any letter case, a month abbreviation
\* or "jly", optionally followed by "24", extract_month_year_from_filename returns
\* the first day of that month, of 2024 if the token ends in "24" and of 2023
\* otherwise.
C2_ValidTokenGivesFirstOfMonth ==
    pc = "returned" =>
        \A prefix \in Prefixes, w \in MonthNames, suffix \in {<<>>, <<"2", "4">>} :
            Lower(inp.s) = prefix \o w \o suffix \o Ext
                => out = Date(IF suffix = <<>> THEN 2023 ELSE 2024, TokenMonth(w), 1)

\* C3 as claimed: if loading or transforming a matched file fails, the run aborts
\* and no output file has been written by the run, whatever the flags.
C3_NoOutputAfterAnyFailure ==
    pc = "aborted" => DOMAIN written = {}

\* C3 as amended: a run in which loading or transforming a file fails aborts, and
\* the step that failed has written nothing: no report when a file cannot be
\* loaded, no combined table when a file cannot be loaded or transformed.  A run
\* given both flags that fails in the transform step has written the report, and
\* only the report.
C3_NoOutputFromTheFailingStep ==
    /\ (pc = "aborted" /\ failed_in = "validate") => DOMAIN written = {}
    /\ (pc = "aborted" /\ failed_in = "transform")
          => DOMAIN written = (IF args.validate THEN {ReportPath} ELSE {})
    /\ HasReport => \A k \in DOMAIN files : files[k].readable
    /\ HasCombined => \A k \in DOMAIN files : WellFormedFile(files[k])
    /\ (pc = "exit" /\ args.transform) => HasCombined
    /\ (pc \in {"main_transform", "transform", "exit"} /\ args.validate) => HasReport

C3_Witness ==
    /\ pc = "aborted"
    /\ failed_in = "transform"
    /\ error = "ValueError"
    /\ i <= Len(files)
    /\ args.validate
    /\ HasReport

KeyOf(w, k) == w[k].row["Month/Year"]

\* C4: the table written by transform_and_union is non-decreasing by Month/Year,
\* rows with equal Month/Year keep the relative order they had in the
\* concatenation, and the rows with a null Month/Year are together at one end.
C4_SortedStableNullsTogether ==
    (pc = "exit" /\ HasCombined) =>
        LET w == written[CombinedPath]
        IN  /\ \A a, b \in DOMAIN w :
                  (a < b /\ ~IsNa(KeyOf(w, a)) /\ ~IsNa(KeyOf(w, b)))
                      => DateKey(KeyOf(w, a)) <= DateKey(KeyOf(w, b))
            /\ \A a, b \in DOMAIN w :
                  (a < b /\ KeyOf(w, a) = KeyOf(w, b)) => w[a].index < w[b].index
            /\ \/ \A a, b \in DOMAIN w :
                      (a < b /\ IsNa(KeyOf(w, a))) => IsNa(KeyOf(w, b))
               \/ \A a, b \in DOMAIN w :
                      (a < b /\ IsNa(KeyOf(w, b))) => IsNa(KeyOf(w, a))

RECURSIVE SumLen(_)
SumLen(fs) == IF fs = <<>> THEN 0 ELSE Len(Head(fs).rows) + SumLen(Tail(fs))

\* the cell read_csv makes of a task-details text that is no number
TaskCell(x) == IF IsNaText(x) THEN NaN ELSE Str(x)

\* C5: when transform_and_union succeeds, the written table has as many rows as
\* the input files together, and every input row is in it exactly once: row r of
\* file k is the one row numbered (rows of the files before k) + r - 1, it bears
\* the file's name and the row's task details.
C5_EveryRowExactlyOnce ==
    (pc = "exit" /\ HasCombined) =>
        LET w == written[CombinedPath]
        IN  /\ Len(w) = SumLen(files)
            /\ \A k \in DOMAIN files : \A r \in DOMAIN files[k].rows :
                  LET at == {q \in DOMAIN w :
                                w[q].index = SumLen(SubSeq(files, 1, k - 1)) + r - 1}
                  IN  /\ Cardinality(at) = 1
                      /\ \A q \in at :
                            /\ w[q].row["Filename"] = Str(Basename(files[k].name))
                            /\ w[q].row["taskDetails"]
                                   = TaskCell(files[k].rows[r]["taskDetails"])

C5_Witness ==
    /\ pc = "exit"
    /\ HasCombined
    /\ Len(files) = 2
    /\ Range(files[1].header) # Range(files[2].header)
    /\ Len(written[CombinedPath]) = 3

\* the dtype a column has in a file, as get_file_stats sees it
TypeIn(f, c) == IF c = "Month/Year" THEN "object" ELSE ParsedTable(f).col[c].dtype

FilesWith(c) == {k \in DOMAIN files : c \in Range(StatsColumns(files[k]))}

TypesOf(c) == {TypeIn(files[k], c) : k \in FilesWith(c)}

SeenColumns == UNION {Range(StatsColumns(files[k])) : k \in DOMAIN files}

\* C6: after get_file_stats, get_discrepancies returns rows for a column if and
\* only if the column was seen with at least two dtypes; then it returns exactly
\* one row per dtype, whose files are exactly the files where the column had that
\* dtype.
C6_DiscrepanciesExact ==
    HasReport =>
        /\ \A k \in DOMAIN discrepancies : discrepancies[k].Column \in SeenColumns
        /\ \A c \in SeenColumns :
              LET rows == {k \in DOMAIN discrepancies : discrepancies[k].Column = c}
              IN  /\ (rows # {}) <=> (Cardinality(TypesOf(c)) >= 2)
                  /\ \A k \in rows : discrepancies[k].DataType \in TypesOf(c)
                  /\ Cardinality(TypesOf(c)) >= 2 =>
                        \A d \in TypesOf(c) :
                            /\ Cardinality({k \in rows : discrepancies[k].DataType = d}) = 1
                            /\ \A k \in rows :
                                  discrepancies[k].DataType = d =>
                                      discrepancies[k].Files =
                                          {Basename(files[j].name) :
                                              j \in {h \in FilesWith(c) :
                                                        TypeIn(files[h], c) = d}}

C6_Witness ==
    /\ HasReport
    /\ \E k \in DOMAIN discrepancies : discrepancies[k].Column = "recipientsNumbers"
    /\ \E c \in SeenColumns :
          /\ Cardinality(FilesWith(c)) = 2
          /\ \A k \in DOMAIN discrepancies : discrepancies[k].Column # c

UnparseableName(f) == MonthToken(f.name) \notin {Lower(x) : x \in ValidTokens}

\* C9: a file whose filename token is no month does not abort the run: the run
\* never fails on a file that the same run would process under the name of a
\* month, and when the table is written every row of such a file is in it with a
\* null Month/Year.
C9_UnparseableNameIsNullDate ==
    /\ (pc = "aborted" /\ i <= Len(files) /\ UnparseableName(files[i]))
          => TransformFileTable([files[i] EXCEPT !.name = FileName(<<"j", "a", "n">>)]).t
                 = "raise"
    /\ (pc = "exit" /\ HasCombined) =>
          \A k \in DOMAIN files :
              UnparseableName(files[k]) =>
                  Cardinality({q \in DOMAIN written[CombinedPath] :
                      /\ written[CombinedPath][q].row["Filename"]
                             = Str(Basename(files[k].name))
                      /\ written[CombinedPath][q].row["Month/Year"] = NoneVal})
                      = Len(files[k].rows)

C9_Witness ==
    /\ pc = "exit"
    /\ HasCombined
    /\ \E k \in DOMAIN files : UnparseableName(files[k]) /\ Len(files[k].rows) = MaxRows
    /\ \E q \in DOMAIN written[CombinedPath] :
          written[CombinedPath][q].row["Month/Year"] = Date(2024, 2, 1)

\* C10: when no file is matched, transform_and_union fails in the concatenation
\* and writes nothing: the run never exits normally with --transform given, and
\* no combined table is written.
C10_NoFilesNoOutput ==
    files = <<>> =>
        /\ ~HasCombined
        /\ args.transform => pc # "exit"
        /\ (pc = "aborted" /\ failed_in = "transform") => error = "ValueError"

C10_Witness ==
    /\ files = <<>>
    /\ pc = "aborted"
    /\ failed_in = "transform"
    /\ error = "ValueError"
    /\ DOMAIN written = {}

-----------------------------------------------------------------------------
(* Properties of extract_total_from_task_details *)

\* the whole word "total", in any letter case, begins at position p of s
IsTotalAt(s, p) ==
    /\ p + 4 <= Len(s)
    /\ \A k \in 0..4 : LowerChar(s[p + k]) = TotalWord[k + 1]
    /\ (p = 1 \/ ~IsWordChar(s[p - 1]))
    /\ (p + 4 = Len(s) \/ ~IsWordChar(s[p + 5]))

\* s[a..b] is an amount: digits and commas, a point, two digits
IsAmount(s, a, b) ==
    /\ a <= b - 3
    /\ s[b - 2] = "."
    /\ IsDigit(s[b - 1])
    /\ IsDigit(s[b])
    /\ \A h \in a..(b - 3) : IsDigit(s[h]) \/ s[h] = ","

\* the occurrences <<p, a, b>> of the pattern in s: the word total at p, a colon
\* with no digit between the word and it, optional spaces, a dollar sign, and
\* the amount s[a..b]
Occurrences(s) ==
    {o \in {p \in DOMAIN s : IsTotalAt(s, p)}
             \X {a \in DOMAIN s : a > 1 /\ s[a - 1] = "$"}
             \X {b \in DOMAIN s : b > 2 /\ s[b - 2] = "."} :
        /\ IsAmount(s, o[2], o[3])
        /\ \E j \in (o[1] + 5)..(o[2] - 2) :
              /\ s[j] = ":"
              /\ \A h \in (o[1] + 5)..(j - 1) : ~IsDigit(s[h])
              /\ \A h \in (j + 1)..(o[2] - 2) : IsSpace(s[h])}

\* the number an amount denotes once its commas are removed
AmountValue(s, a, b) ==
    Normalize(DigitsValue(SelectSeq(SubSeq(s, a, b - 3), IsDigit)) * 100
                  + DigitsValue(SubSeq(s, b - 1, b)), 2)

\* C7: extract_total_from_task_details returns 0.0 for a value that is no text
\* and for a text without an occurrence of the pattern; otherwise it returns the
\* amount of the first occurrence, commas removed.
C7_FirstTotalOrZero ==
    pc = "returned" =>
        IF inp.t # "str" THEN out = Num(0, 0)
        ELSE LET occ == Occurrences(inp.s)
             IN  IF occ = {} THEN out = Num(0, 0)
                 ELSE \A o \in occ :
                        (\A q \in occ : o[1] <= q[1])
                            => out = AmountValue(inp.s, o[2], o[3])

C7_Witness ==
    /\ pc = "returned"
    /\ inp.t = "str"
    /\ Cardinality({o[1] : o \in Occurrences(inp.s)}) = 2
    /\ out = Num(123456, 2)

-----------------------------------------------------------------------------
(* Properties of transform_columns *)

GeoParts(x) == Split(LStrip(x, Backtick), ",")

\* C8: for each of the five composite columns present in the table, whose cells
\* are lon,lat with an optional leading grave accent, transform_columns adds a
\* <base>_Longitude and a <base>_Latitude column holding the two numbers, and the
\* composite column is not in the result.
C8_PresentCompositeColumnsAreSplit ==
    (/\ pc = "returned"
     /\ \A r \in DOMAIN inp.rows :
            \A c \in Range(inp.header) \cap Range(lonlat_columns) :
                WellFormedGeo(inp.rows[r][c]))
        => /\ out.t = "table"
           /\ \A k \in DOMAIN lonlat_columns :
                 lonlat_columns[k] \in Range(inp.header) =>
                     /\ lonlat_columns[k] \notin Columns(out)
                     /\ \A r \in DOMAIN inp.rows :
                           /\ out.col[lonlat_bases[k] \o "_Longitude"].v[r]
                                  = PyFloat(GeoParts(inp.rows[r][lonlat_columns[k]])[1])
                           /\ out.col[lonlat_bases[k] \o "_Latitude"].v[r]
                                  = PyFloat(GeoParts(inp.rows[r][lonlat_columns[k]])[2])

====
